---- MODULE Spec2Model ----
(***************************************************************************)
(* The offline mutation queue and synchronisation engine of                *)
(* src/client/lib/offline.ts: the persisted queue, enqueue, processQueue   *)
(* with its batches, retry accounting and cache invalidation, and the      *)
(* connectivity-driven scheduler (setupOfflineSync, startOfflineSync,      *)
(* stopOfflineSync).  Every await of the source is a suspension point:     *)
(* the steps between two awaits are one action.                            *)
(***************************************************************************)
EXTENDS Integers, Sequences, FiniteSets, TLC

\* ------------------------------------------------------------- bounds
\* mutations in a run: those persisted at the start and those enqueued
MaxId == 2
\* mutations persisted when a run of Spec, SpecDrain or SpecSched starts
MaxInit == 1
\* mutations persisted when a run of SpecSeq starts
MaxInitSeq == 4
\* mutations in a run of SpecEnq
MaxIdEnq == 3
\* the largest retryCount the backoff is computed for
MaxRetryCount == 8
\* the longest queue the batch partition is computed for
MaxBatchLen == 7
\* processQueue calls that reach loadQueue in a run
MaxCalls == 2
\* startOfflineSync calls between two stopOfflineSync calls
MaxStarts == 2
\* processQueue calls that may be in progress at the same time
MaxPasses == 2
\* headers of a queued request
MaxHeaders == 3

\* --------------------------------------------------- program constants
batchSize == 3
MaxRetries == 5
FingerprintLen == 16

QUEUE_KEY == <<"offline_queue_v1">>
CACHE_PREFIX == <<"offline_cache_v1:">>

\* Strings are sequences of tokens; includes and startsWith are computed
\* on them as String.prototype.includes / startsWith compute on characters.
startsWith(key, pre) ==
  /\ Len(key) >= Len(pre)
  /\ SubSeq(key, 1, Len(pre)) = pre

includes(key, tok) == \E i \in 1..Len(key) : key[i] = tok

\* The keys the durable store may hold beside QUEUE_KEY, in the order
\* localforage.keys() lists them.
AllKeys ==
  << CACHE_PREFIX \o <<"GET:", "/api/", "transactions", ":t=", "a", "n", "o", "n">>,
     CACHE_PREFIX \o <<"GET:", "/api/", "accounts", ":t=", "a", "n", "o", "n">>,
     <<"draft:", "transactions">> >>

KeySet == {AllKeys[i] : i \in 1..Len(AllKeys)}

\* The URLs of queued requests, as their path segments.
Urls == { <<"api", "transactions", "create">>, <<"health">> }

undefined == "undefined"
\* null, told apart from every string of characters
null == << "null" >>

\* urlPath.split('/').filter(Boolean)[1]
resourceType(url) == IF Len(url) >= 2 THEN url[2] ELSE undefined

NoOp == [processed |-> 0, failed |-> 0, remaining |-> 0]

Idle ==
  [pc |-> "idle", kind |-> "none", owner |-> 0, onl |-> TRUE, q |-> <<>>,
   lo |-> 1, st |-> <<>>, keep |-> <<>>, todo |-> <<>>, resp |-> <<>>,
   remaining |-> <<>>, processed |-> 0, failed |-> 0, fault |-> FALSE,
   ms |-> <<>>, reqs |-> <<>>, flt |-> <<>>, retry |-> FALSE]

NoLast ==
  [how |-> "none", res |-> NoOp, onl |-> TRUE, cause |-> "none", kind |-> "none"]

NoRequest == [item |-> << >>, headers |-> << >>]

Passes == 1..MaxPasses
\* setupOfflineSync closures: the registered one and those of running passes
Closures == 1..(MaxPasses + 1)

VARIABLES
  online,          \* navigator.onLine
  queue,           \* the value stored under QUEUE_KEY
  cache,           \* the other keys present in the store
  enq,             \* enqueue calls in progress
  pass,            \* processQueue calls in progress, by slot
  last,            \* how the most recent processQueue call ended
  started,         \* module variable started
  cleanup,         \* module variable cleanup: a closure, or 0 for null
  syncInProgress,  \* the flag of each setupOfflineSync closure
  handlers,        \* closures whose attemptSync listens to 'online'
  timers,          \* closures whose interval is set
  nextId,          \* the next mutation to be enqueued
  calls,           \* processQueue calls that reached loadQueue
  acked,           \* history: mutations whose enqueue call returned
  okd,             \* history: mutations answered 2xx
  rejected,        \* history: mutations answered 400..499
  exhausted,       \* history: mutations dropped with retryCount > 5
  settled,         \* history: mutations a pass that returned did not keep
  immediate,       \* history: immediate passes of start since the last stop
  starts,          \* history: startOfflineSync calls since the last stop
  op,              \* history: the scheduler call or trigger that came last
  loads,           \* history: the passes that loaded each mutation
  sent,            \* history: the requests sent, as << mutation, kind of pass >>
  request,         \* the headers of a queued item and of the request sent for it
  reordered,       \* history: an item returned before an earlier one of its batch
  authToken,       \* localStorage "auth_token": a string or null
  entries          \* the identity that stored each cache entry of the session

vars ==
  << online, queue, cache, enq, pass, last, started, cleanup,
     syncInProgress, handlers, timers, nextId, acked, okd, rejected,
     exhausted, settled, immediate, starts, calls, op, loads, sent,
     request, reordered, authToken, entries >>

schedVars ==
  << started, cleanup, syncInProgress, handlers, timers, immediate, starts, op >>
histVars == << acked, okd, rejected, exhausted, settled, loads >>
authVars == << authToken, entries >>

\* ------------------------------------------------------------ helpers
Min(a, b) == IF a < b THEN a ELSE b

Ids(q) == {q[i].id : i \in 1..Len(q)}

RECURSIVE Filter(_, _, _)
\* the items of s at the positions lo..hi that satisfy keep, in order
Filter(s, keep, lo) ==
  IF lo > Len(s) THEN <<>>
  ELSE (IF keep[lo] THEN <<s[lo]>> ELSE <<>>) \o Filter(s, keep, lo + 1)

Active(p) == pass[p].pc # "idle"
FreeSlots == {p \in Passes : ~Active(p)}
\* the slot a new call runs in
Slot == CHOOSE p \in FreeSlots : \A r \in FreeSlots : p <= r

isOnline == online

\* the retryCount of a mutation persisted by an earlier session
InitRetryCounts == {0, MaxRetries}

\* the queues an earlier session may have persisted: up to n mutations
Queues(n) ==
  UNION {[1..k -> Urls \X InitRetryCounts] : k \in 0..n}

InitWith(n) ==
  /\ online = TRUE
  /\ \E f \in Queues(n) :
       /\ queue = [i \in DOMAIN f |->
                    [id |-> i, url |-> f[i][1], retryCount |-> f[i][2]]]
       /\ nextId = Len(queue) + 1
       /\ acked = 1..Len(queue)
       /\ loads = [i \in DOMAIN f |-> f[i][2]]
  /\ cache = KeySet
  /\ enq = {}
  /\ last = NoLast
  /\ started = FALSE
  /\ cleanup = 0
  /\ syncInProgress = [c \in Closures |-> FALSE]
  /\ handlers = {}
  /\ timers = {}
  /\ okd = {}
  /\ rejected = {}
  /\ exhausted = {}
  /\ settled = {}
  /\ immediate = 0
  /\ starts = 0
  /\ op = "none"
  /\ sent = {}
  /\ request = NoRequest
  /\ reordered = FALSE
  /\ authToken = null
  /\ entries = [k \in {} |-> null]

\* ------------------------------------------------------------ enqueue
loadQueue == queue

\* lines 58-65 with the new item put first
enqueueItemFront(q, id, url) ==
  << [id |-> id, url |-> url, retryCount |-> 0] >> \o q

\* lines 58-65: the loaded queue with the new item pushed
enqueueItem(q, id, url) ==
  Append(q, [id |-> id, url |-> url, retryCount |-> 0])

\* enqueue is called: loadQueue is awaited
EnqueueCall(cap) ==
  /\ nextId <= cap
  /\ \E url \in Urls :
       enq' = enq \cup {[id |-> nextId, url |-> url, pc |-> "load", q |-> <<>>]}
  /\ nextId' = nextId + 1
  /\ loads' = [id \in DOMAIN loads \cup {nextId} |->
                 IF id \in DOMAIN loads THEN loads[id] ELSE 0]
  /\ UNCHANGED << online, queue, cache, pass, last, calls, schedVars,
                  authVars, acked, okd, rejected, exhausted, settled, sent,
                  request, reordered >>

\* loadQueue resolves: the item is pushed and saveQueue is awaited
EnqueueLoaded ==
  \E e \in enq :
    /\ e.pc = "load"
    /\ enq' = (enq \ {e}) \cup
                {[e EXCEPT !.pc = "save", !.q = enqueueItem(loadQueue, e.id, e.url)]}
    /\ UNCHANGED << online, queue, cache, pass, last, nextId, authVars, calls,
                    schedVars, histVars, sent, request, reordered >>

\* saveQueue resolves: enqueue returns
EnqueueSaved ==
  \E e \in enq :
    /\ e.pc = "save"
    /\ queue' = e.q
    /\ enq' = enq \ {e}
    /\ acked' = acked \cup {e.id}
    /\ UNCHANGED << online, cache, pass, last, nextId, authVars, calls,
                    schedVars, okd, rejected, exhausted, settled, loads, sent,
                    request, reordered >>

\* the store faults under loadQueue or saveQueue: enqueue throws
EnqueueFault ==
  \E e \in enq :
    /\ enq' = enq \ {e}
    /\ UNCHANGED << online, queue, cache, pass, last, nextId, authVars, calls,
                    schedVars, histVars, sent, request, reordered >>

\* ------------------------------------------------------- processQueue
Pow2(n) == 2 ^ n

\* line 99 without the backoff
backoffTimeNone(retryCount) == 0

\* line 99
backoffTime(retryCount) ==
  IF retryCount > 0 THEN Min(1000 * Pow2(retryCount - 1), 30000) ELSE 0

\* Response.ok
ok(status) == status >= 200 /\ status <= 299

\* line 116
clientError(status) == status >= 400 /\ status < 500

\* lines 122 and 150 keeping the item whatever its retryCount
keepForRetryAlways(retryCount) == TRUE

\* lines 122 and 150
keepForRetry(retryCount) == retryCount <= MaxRetries

\* the statuses a response may carry
Statuses == {200, 304, 404, 499, 500}

Class(status) ==
  IF ok(status) THEN "ok" ELSE IF clientError(status) THEN "client" ELSE "transient"

\* Array.prototype.slice(from, to), indices from 0
slice(q, from, to) == SubSeq(q, from + 1, Min(to, Len(q)))

RECURSIVE batchesFrom(_, _)
\* lines 91-93: the batches pushed from index i on
batchesFrom(q, i) ==
  IF i < Len(q)
  THEN << slice(q, i, i + batchSize) >> \o batchesFrom(q, i + batchSize)
  ELSE << >>

\* lines 89-93
batches(q) == batchesFrom(q, 0)

BatchEnd(pr) == Min(pr.lo + batchSize - 1, Len(pr.q))

\* lines 96-112 mapping over the rest of the queue instead of one batch
StartBatchAll(pr, lo) ==
  [pr EXCEPT !.pc = "batch", !.lo = lo,
     !.st = [i \in 1..Len(pr.q) |->
               IF i >= lo
               THEN (IF backoffTime(pr.q[i].retryCount) > 0 THEN "wait" ELSE "fetch")
               ELSE pr.st[i]],
     !.ms = [i \in 1..Len(pr.q) |->
               IF i >= lo THEN backoffTime(pr.q[i].retryCount) ELSE pr.ms[i]],
     !.reqs = [i \in 1..Len(pr.q) |->
                 IF i >= lo /\ backoffTime(pr.q[i].retryCount) = 0
                 THEN pr.reqs[i] + 1
                 ELSE pr.reqs[i]]]

\* lines 96-112 up to the first await of each item of the batch that starts
\* at lo: an item with a backoff waits, the others have their request sent
StartBatch(pr, lo) ==
  LET hi == Min(lo + batchSize - 1, Len(pr.q)) IN
  [pr EXCEPT !.pc = "batch", !.lo = lo,
     !.st = [i \in 1..Len(pr.q) |->
               IF i >= lo /\ i <= hi
               THEN (IF backoffTime(pr.q[i].retryCount) > 0 THEN "wait" ELSE "fetch")
               ELSE pr.st[i]],
     !.ms = [i \in 1..Len(pr.q) |->
               IF i >= lo /\ i <= hi
               THEN backoffTime(pr.q[i].retryCount)
               ELSE pr.ms[i]],
     !.reqs = [i \in 1..Len(pr.q) |->
                 IF i >= lo /\ i <= hi /\ backoffTime(pr.q[i].retryCount) = 0
                 THEN pr.reqs[i] + 1
                 ELSE pr.reqs[i]]]

\* lines 160-165 pushing every result, the nulls included
AdvanceAll(pr) ==
  LET hi == BatchEnd(pr)
      pushed == [pr EXCEPT !.remaining = @ \o SubSeq(pr.q, pr.lo, hi)]
  IN IF \E i \in pr.lo..hi : pr.st[i] # "done" THEN pr
     ELSE IF hi < Len(pr.q) THEN StartBatch(pushed, hi + 1)
     ELSE [pushed EXCEPT !.pc = "save"]

\* lines 160-165: once every item of the batch has returned, its survivors
\* are pushed and the next batch starts, or saveQueue is awaited
Advance(pr) ==
  LET hi == BatchEnd(pr)
      pushed == [pr EXCEPT !.remaining =
                   @ \o Filter(SubSeq(pr.q, pr.lo, hi), SubSeq(pr.keep, pr.lo, hi), 1)]
  IN IF \E i \in pr.lo..hi : pr.st[i] # "done" THEN pr
     ELSE IF hi < Len(pr.q) THEN StartBatch(pushed, hi + 1)
     ELSE [pushed EXCEPT !.pc = "save"]

\* an item's callback returns and its result is pushed at once
ReturnPushing(pr, i, kept) ==
  Advance([pr EXCEPT !.st[i] = "done", !.keep[i] = FALSE,
                     !.remaining = IF kept THEN Append(@, pr.q[i]) ELSE @])

\* an item's callback returns: the item (kept) or null
Return(pr, i, kept) ==
  Advance([pr EXCEPT !.st[i] = "done", !.keep[i] = kept])

\* lines 120-127 sending the request again while retryCount <= 5
retryableResend(pr, i) ==
  LET rc == pr.q[i].retryCount + 1
      bumped == [pr EXCEPT !.q[i].retryCount = rc]
  IN IF keepForRetry(rc)
     THEN [bumped EXCEPT !.st[i] = "fetch", !.reqs[i] = @ + 1]
     ELSE Return([bumped EXCEPT !.failed = @ + 1], i, FALSE)

\* lines 120-127
retryable(pr, i) ==
  LET rc == pr.q[i].retryCount + 1
      bumped == [pr EXCEPT !.q[i].retryCount = rc]
  IN IF keepForRetry(rc) THEN Return(bumped, i, TRUE)
     ELSE Return([bumped EXCEPT !.failed = @ + 1], i, FALSE)

\* lines 147-156
catch(pr, i) ==
  LET rc == pr.q[i].retryCount + 1
      bumped == [pr EXCEPT !.q[i].retryCount = rc]
  IN IF keepForRetry(rc) THEN Return(bumped, i, TRUE)
     ELSE Return([bumped EXCEPT !.failed = @ + 1], i, FALSE)

\* the mutations a retry of item i drops for good
Exhausts(pr, i) ==
  IF keepForRetry(pr.q[i].retryCount + 1) THEN {} ELSE {pr.q[i].id}

\* lines 114-119 leaving the pass instead of returning null
rejectsAborts(pr, i) ==
  [pr EXCEPT !.failed = @ + 1, !.st[i] = "done", !.pc = "save"]

\* lines 114-119
rejects(pr, i) == Return([pr EXCEPT !.failed = @ + 1], i, FALSE)

\* lines 129-136: a 2xx response, up to the await of localforage.keys()
succeeds(pr, i) ==
  LET counted == [pr EXCEPT !.processed = @ + 1] IN
  IF resourceType(pr.q[i].url) # undefined
  THEN [counted EXCEPT !.st[i] = "keys"]
  ELSE Return(counted, i, FALSE)

\* line 139 without the check of the prefix
invalidatesAny(key, token) == includes(key, token)

\* line 139
invalidates(key, token) == includes(key, token) /\ startsWith(key, CACHE_PREFIX)

\* localforage.keys()
storeKeys ==
  <<QUEUE_KEY>> \o
  Filter(AllKeys, [i \in 1..Len(AllKeys) |-> AllKeys[i] \in cache], 1)

\* lines 137-143 removing every key of the snapshot
toRemoveAll(keys, token) == keys

\* lines 137-143 from the result of keys() to the first removeItem awaited:
\* the keys of the snapshot that the loop removes, in order
toRemove(keys, token) ==
  Filter(keys, [i \in 1..Len(keys) |-> invalidates(keys[i], token)], 1)

\* lines 184-186 without the reset of the flag
finallyNot(p) == syncInProgress

\* lines 184-186
finally(p) ==
  IF pass[p].kind = "sync"
  THEN [syncInProgress EXCEPT ![pass[p].owner] = FALSE]
  ELSE syncInProgress

\* the call in slot p ends
Finish(p, how, res, cause) ==
  /\ pass' = [pass EXCEPT ![p] = Idle]
  /\ last' = [how |-> how, res |-> res, onl |-> TRUE, cause |-> cause,
              kind |-> pass[p].kind]
  /\ syncInProgress' = finally(p)

\* line 78 without the connectivity check
offlineReturnNever == FALSE

\* line 78
offlineReturn == ~isOnline

\* a call that awaits loadQueue (line 80); retry tells that the call before
\* it was a pass of attemptSync that threw
Called(kind, owner) ==
  [Idle EXCEPT !.pc = "load", !.kind = kind, !.owner = owner, !.onl = isOnline,
               !.retry = (last.how = "threw" /\ last.kind = "sync")]

\* processQueue is called (lines 78-80): offline it returns at once,
\* online it awaits loadQueue
processQueue(kind, owner) ==
  IF offlineReturn
  THEN /\ last' = [how |-> "returned", res |-> NoOp, onl |-> FALSE,
                   cause |-> "none", kind |-> kind]
       /\ pass' = pass
       /\ calls' = calls
  ELSE /\ FreeSlots # {}
       /\ calls < MaxCalls
       /\ pass' = [pass EXCEPT ![Slot] = Called(kind, owner)]
       /\ last' = NoLast
       /\ calls' = calls + 1

\* the request of item i of the call in slot p is in flight
InFlight(p, i) ==
  /\ pass[p].pc = "batch"
  /\ i \in DOMAIN pass[p].q
  /\ pass[p].st[i] = "fetch"

\* this step sends a request for mutation id
SendsRequest(id) ==
  \E p \in Passes : \E i \in DOMAIN pass'[p].q :
    /\ pass'[p].q[i].id = id
    /\ pass'[p].pc = "batch"
    /\ pass'[p].st[i] = "fetch"
    /\ ~InFlight(p, i)

\* the requests this step sends (line 104), each with the kind of its pass
Requests ==
  UNION {{<< pass'[p].q[i].id, pass'[p].kind >> :
            i \in {k \in DOMAIN pass'[p].q :
                     /\ pass'[p].pc = "batch"
                     /\ pass'[p].st[k] = "fetch"
                     /\ ~InFlight(p, k)}} : p \in Passes}

\* with this step an item returns while an earlier item of its batch has
\* not returned yet
Overtakes ==
  \E p \in Passes : \E i, j \in DOMAIN pass[p].q :
    /\ pass[p].pc = "batch"
    /\ pass[p].lo <= j /\ j < i /\ i <= BatchEnd(pass[p])
    /\ pass[p].st[j] # "done"
    /\ pass[p].st[i] # "done"
    /\ pass'[p].st[i] = "done"

\* lines 80-81 and the first batch
Loaded(p) ==
  /\ pass[p].pc = "load"
  /\ LET q == loadQueue
         n == Len(q)
     IN IF n = 0
        THEN /\ Finish(p, "returned", NoOp, "none")
        ELSE /\ pass' = [pass EXCEPT ![p] =
                  StartBatch([@ EXCEPT !.q = q,
                                !.st = [i \in 1..n |-> "new"],
                                !.keep = [i \in 1..n |-> FALSE],
                                !.todo = [i \in 1..n |-> <<>>],
                                !.resp = [i \in 1..n |-> "none"],
                                !.ms = [i \in 1..n |-> 0],
                                !.reqs = [i \in 1..n |-> 0],
                                !.flt = [i \in 1..n |-> FALSE]], 1)]
             /\ UNCHANGED << last, syncInProgress >>
  /\ loads' = [id \in DOMAIN loads |->
                 IF id \in Ids(loadQueue) THEN loads[id] + 1 ELSE loads[id]]
  /\ UNCHANGED << online, queue, cache, enq, nextId, authVars, calls, started,
                  cleanup, handlers, timers, immediate, starts, op, acked,
                  okd, rejected, exhausted, settled >>
  /\ sent' = sent \cup Requests
  /\ request' = request
  /\ reordered' = reordered

\* loadQueue rejects: processQueue throws
LoadFault(p) ==
  /\ pass[p].pc = "load"
  /\ Finish(p, "threw", NoOp, "load")
  /\ UNCHANGED << online, queue, cache, enq, nextId, authVars, calls, started,
                  cleanup, handlers, timers, immediate, starts, op, histVars,
                  sent, request, reordered >>

\* the backoff of item i elapses and its request is sent (lines 101-104)
Waited(p, i) ==
  /\ pass[p].pc = "batch"
  /\ i \in 1..Len(pass[p].q)
  /\ pass[p].st[i] = "wait"
  /\ pass' = [pass EXCEPT ![p].st[i] = "fetch", ![p].reqs[i] = @ + 1]
  /\ UNCHANGED << online, queue, cache, enq, last, nextId, authVars, calls,
                  schedVars, histVars >>
  /\ sent' = sent \cup Requests
  /\ request' = request
  /\ reordered' = reordered

\* the response of item i arrives (lines 114-136)
Responded(p, i) ==
  /\ pass[p].pc = "batch"
  /\ i \in 1..Len(pass[p].q)
  /\ pass[p].st[i] = "fetch"
  /\ \E status \in Statuses :
       LET pr == [pass[p] EXCEPT !.resp[i] = Class(status)]
           id == pr.q[i].id
       IN IF ~ok(status)
          THEN IF clientError(status)
               THEN /\ pass' = [pass EXCEPT ![p] = rejects(pr, i)]
                    /\ rejected' = rejected \cup {id}
                    /\ UNCHANGED << okd, exhausted, settled >>
               ELSE /\ pass' = [pass EXCEPT ![p] = retryable(pr, i)]
                    /\ exhausted' = exhausted \cup Exhausts(pr, i)
                    /\ UNCHANGED << okd, rejected, settled >>
          ELSE /\ pass' = [pass EXCEPT ![p] = succeeds(pr, i)]
               /\ okd' = okd \cup {id}
               /\ UNCHANGED << rejected, exhausted, settled >>
  /\ UNCHANGED << online, queue, cache, enq, last, nextId, authVars, calls,
                  schedVars, acked, loads >>
  /\ sent' = sent \cup Requests
  /\ request' = request
  /\ reordered' = (reordered \/ Overtakes)

\* fetch rejects: the catch block runs (lines 147-156)
Threw(p, i) ==
  /\ pass[p].pc = "batch"
  /\ i \in 1..Len(pass[p].q)
  /\ pass[p].st[i] = "fetch"
  /\ LET pr == [pass[p] EXCEPT !.resp[i] = "transient"] IN
       /\ pass' = [pass EXCEPT ![p] = catch(pr, i)]
       /\ exhausted' = exhausted \cup Exhausts(pr, i)
  /\ UNCHANGED << online, queue, cache, enq, last, nextId, authVars, calls,
                  schedVars, acked, okd, rejected, settled, loads >>
  /\ sent' = sent \cup Requests
  /\ request' = request
  /\ reordered' = (reordered \/ Overtakes)

\* localforage.keys() resolves (lines 137-140)
Listed(p, i) ==
  /\ pass[p].pc = "batch"
  /\ i \in 1..Len(pass[p].q)
  /\ pass[p].st[i] = "keys"
  /\ LET todo == toRemove(storeKeys, resourceType(pass[p].q[i].url)) IN
       pass' = [pass EXCEPT ![p] =
                  IF todo = <<>> THEN Return(@, i, FALSE)
                  ELSE [@ EXCEPT !.st[i] = "remove", !.todo[i] = todo]]
  /\ UNCHANGED << online, queue, cache, enq, last, nextId, authVars, calls,
                  schedVars, histVars >>
  /\ sent' = sent \cup Requests
  /\ request' = request
  /\ reordered' = (reordered \/ Overtakes)

\* localforage.removeItem(key) resolves (lines 140-145)
Removed(p, i) ==
  /\ pass[p].pc = "batch"
  /\ i \in 1..Len(pass[p].q)
  /\ pass[p].st[i] = "remove"
  /\ LET key == Head(pass[p].todo[i])
         rest == Tail(pass[p].todo[i])
     IN /\ IF key = QUEUE_KEY
           THEN queue' = <<>> /\ cache' = cache
           ELSE cache' = cache \ {key} /\ queue' = queue
        /\ entries' = [k \in DOMAIN entries \ {key} |-> entries[k]]
        /\ authToken' = authToken
        /\ pass' = [pass EXCEPT ![p] =
                      IF rest = <<>> THEN Return([@ EXCEPT !.todo[i] = <<>>], i, FALSE)
                      ELSE [@ EXCEPT !.todo[i] = rest]]
  /\ UNCHANGED << online, enq, last, nextId, calls, schedVars, histVars >>
  /\ sent' = sent \cup Requests
  /\ request' = request
  /\ reordered' = (reordered \/ Overtakes)

\* localforage.keys() or removeItem rejects inside the try block: the
\* catch block runs (lines 137-156)
CacheFault(p, i) ==
  /\ pass[p].pc = "batch"
  /\ i \in 1..Len(pass[p].q)
  /\ pass[p].st[i] \in {"keys", "remove"}
  /\ LET pr == [pass[p] EXCEPT !.todo[i] = <<>>, !.fault = TRUE, !.flt[i] = TRUE] IN
       /\ pass' = [pass EXCEPT ![p] = catch(pr, i)]
       /\ exhausted' = exhausted \cup Exhausts(pr, i)
  /\ UNCHANGED << online, queue, cache, enq, last, nextId, authVars, calls,
                  schedVars, acked, okd, rejected, settled, loads >>
  /\ sent' = sent \cup Requests
  /\ request' = request
  /\ reordered' = (reordered \/ Overtakes)

\* lines 167-171
result(pr) ==
  [processed |-> pr.processed, failed |-> pr.failed,
   remaining |-> Len(pr.remaining)]

\* saveQueue(remaining) resolves and processQueue returns (lines 165-171)
Saved(p) ==
  /\ pass[p].pc = "save"
  /\ queue' = pass[p].remaining
  /\ Finish(p, "returned", result(pass[p]), "none")
  /\ settled' = settled \cup (Ids(pass[p].q) \ Ids(pass[p].remaining))
  /\ UNCHANGED << online, cache, enq, nextId, authVars, calls, started,
                  cleanup, handlers, timers, immediate, starts, op, acked,
                  okd, rejected, exhausted, loads, sent, request, reordered >>

\* saveQueue rejects: processQueue throws
SaveFault(p) ==
  /\ pass[p].pc = "save"
  /\ Finish(p, "threw", NoOp, "save")
  /\ UNCHANGED << online, queue, cache, enq, nextId, authVars, calls, started,
                  cleanup, handlers, timers, immediate, starts, op, histVars,
                  sent, request, reordered >>

\* processQueue called by another module
DirectCall ==
  /\ processQueue("direct", 0)
  /\ UNCHANGED << online, queue, cache, enq, nextId, authVars, schedVars,
                  histVars, sent, request, reordered >>

\* --------------------------------------------------------- scheduler
\* line 179 without the connectivity check
skipSyncOffline(c) == syncInProgress[c]

\* line 179
skipSync(c) == syncInProgress[c] \/ ~isOnline

\* lines 178-183: attemptSync of closure c, up to its await
attemptSync(c) ==
  IF skipSync(c)
  THEN UNCHANGED << pass, last, calls, syncInProgress >>
  ELSE /\ processQueue("sync", c)
       /\ syncInProgress' = [syncInProgress EXCEPT ![c] = TRUE]

\* closures no listener, timer or running pass refers to
FreeClosures ==
  {c \in Closures :
     /\ c \notin handlers \cup timers
     /\ \A p \in Passes : ~(Active(p) /\ pass[p].owner = c)}

Fresh == CHOOSE c \in FreeClosures : \A d \in FreeClosures : c <= d

\* line 207 without the check of started
alreadyStartedNever == FALSE

\* line 207
alreadyStarted == started

\* lines 206-215, with setupOfflineSync (lines 175-201) inlined
startOfflineSync ==
  IF alreadyStarted
  THEN /\ starts < MaxStarts
       /\ starts' = starts + 1
       /\ op' = "start"
       /\ UNCHANGED << online, queue, cache, enq, pass, last, nextId,
                       authVars, calls, started, cleanup, syncInProgress,
                       handlers, timers, immediate, histVars, sent, request,
                       reordered >>
  ELSE /\ FreeClosures # {}
       /\ starts < MaxStarts
       /\ op' = "start"
       /\ started' = TRUE
       /\ processQueue("start", 0)
       /\ immediate' = immediate + 1
       /\ starts' = starts + 1
       /\ syncInProgress' = [syncInProgress EXCEPT ![Fresh] = FALSE]
       /\ handlers' = handlers \cup {Fresh}
       /\ timers' = timers \cup {Fresh}
       /\ cleanup' = Fresh
       /\ UNCHANGED << online, queue, cache, enq, nextId, authVars, histVars,
                       sent, request, reordered >>

\* line 198 without the removal
removeEventListenerNot(c) == handlers

\* line 198
removeEventListener(c) == handlers \ {c}

\* line 199
clearInterval(c) == timers \ {c}

\* lines 217-224, with the cleanup of lines 197-200
stopOfflineSync ==
  IF ~started
  THEN /\ op' = "stop"
       /\ UNCHANGED << online, queue, cache, enq, pass, last, nextId,
                       authVars, calls, started, cleanup, syncInProgress,
                       handlers, timers, immediate, starts, histVars, sent,
                       request, reordered >>
  ELSE /\ handlers' = IF cleanup # 0 THEN removeEventListener(cleanup) ELSE handlers
       /\ timers' = IF cleanup # 0 THEN clearInterval(cleanup) ELSE timers
       /\ cleanup' = 0
       /\ started' = FALSE
       /\ immediate' = 0
       /\ starts' = 0
       /\ op' = "stop"
       /\ UNCHANGED << online, queue, cache, enq, pass, last, syncInProgress,
                       nextId, authVars, calls, histVars, sent, request,
                       reordered >>

\* an 'online' event is dispatched to a registered listener (line 190)
OnlineEvent ==
  \E c \in handlers :
    /\ attemptSync(c)
    /\ op' = "online"
    /\ UNCHANGED << online, queue, cache, enq, nextId, authVars, started,
                    cleanup, handlers, timers, immediate, starts, histVars,
                    sent, request, reordered >>

\* the interval of a closure fires (lines 193-195)
TimerTick ==
  \E c \in timers :
    /\ IF isOnline THEN attemptSync(c)
       ELSE UNCHANGED << pass, last, calls, syncInProgress >>
    /\ op' = "tick"
    /\ UNCHANGED << online, queue, cache, enq, nextId, authVars, started,
                    cleanup, handlers, timers, immediate, starts, histVars,
                    sent, request, reordered >>

\* ------------------------------------------------------- environment
GoOffline ==
  /\ online
  /\ online' = FALSE
  /\ UNCHANGED << queue, cache, enq, pass, last, nextId, authVars, calls,
                  schedVars, histVars, sent, request, reordered >>

GoOnline ==
  /\ ~online
  /\ online' = TRUE
  /\ UNCHANGED << queue, cache, enq, pass, last, nextId, authVars, calls,
                  schedVars, histVars, sent, request, reordered >>

\* ---------------------------------------------------- specifications
PassStep ==
  \/ \E p \in Passes : Loaded(p)
  \/ \E p \in Passes : LoadFault(p)
  \/ \E p \in Passes : Saved(p)
  \/ \E p \in Passes : SaveFault(p)
  \/ \E p \in Passes : \E i \in DOMAIN pass[p].q : Waited(p, i)
  \/ \E p \in Passes : \E i \in DOMAIN pass[p].q : Responded(p, i)
  \/ \E p \in Passes : \E i \in DOMAIN pass[p].q : Threw(p, i)
  \/ \E p \in Passes : \E i \in DOMAIN pass[p].q : Listed(p, i)
  \/ \E p \in Passes : \E i \in DOMAIN pass[p].q : Removed(p, i)
  \/ \E p \in Passes : \E i \in DOMAIN pass[p].q : CacheFault(p, i)

\* The client online: enqueue calls and processQueue calls of other
\* modules, which may overlap.
Next ==
  \/ EnqueueCall(MaxId)
  \/ EnqueueLoaded
  \/ EnqueueSaved
  \/ EnqueueFault
  \/ DirectCall
  \/ PassStep

Init ==
  /\ InitWith(MaxInit)
  /\ pass = [p \in Passes |-> Idle]
  /\ calls = 0

Spec == Init /\ [][Next]_vars

\* no processQueue call is in progress, or the call returns at once
NoOverlap == ~isOnline \/ \A p \in Passes : ~Active(p)

\* processQueue calls one after the other under changing connectivity,
\* and no enqueue
NextDrain ==
  \/ NoOverlap /\ DirectCall
  \/ PassStep
  \/ GoOffline
  \/ GoOnline

SpecDrain == Init /\ [][NextDrain]_vars

\* One processQueue call, made online on a queue an earlier session
\* persisted, with nothing else running.
InitSeq ==
  /\ InitWith(MaxInitSeq)
  /\ pass = [p \in Passes |-> IF p = 1 THEN Called("direct", 0) ELSE Idle]
  /\ calls = 1

NextSeq == PassStep

SpecSeq == InitSeq /\ [][NextSeq]_vars

\* The scheduler: start, stop, 'online' events, timer ticks and
\* connectivity changes, with the passes they start and direct calls.
NextSched ==
  \/ startOfflineSync
  \/ stopOfflineSync
  \/ OnlineEvent
  \/ TimerTick
  \/ GoOffline
  \/ GoOnline
  \/ DirectCall
  \/ PassStep

SpecSched == Init /\ [][NextSched]_vars

\* ---------------------------------------------------------- read cache
\* the 16 characters that start two of the credentials
Stem == [i \in 1..FingerprintLen |-> "e"]

\* the credentials login may store, as their characters
Tokens ==
  { Stem \o <<"A">>, Stem \o <<"B">>, <<"k", "1">>, <<"a", "n", "o", "n">> }

Credentials == Tokens \cup {null}

\* the URLs of cached GET requests
GetUrls == { <<"/api/", "transactions">>, <<"/api/", "accounts">> }

\* lines 24-30
getTokenForCache == authToken

\* a string that is neither null nor empty
truthy(str) == str # null /\ str # << >>

\* lines 33-34 for a stored credential token
cacheKeyWith(url, token) ==
  CACHE_PREFIX \o <<"GET:">> \o url \o <<":t=">> \o
  (IF truthy(token) THEN slice(token, 0, FingerprintLen)
   ELSE <<"a", "n", "o", "n">>)

\* lines 32-35
cacheKeyFor(url) == cacheKeyWith(url, getTokenForCache)

\* lines 37-40: the value stored under key, here the identity that stored it
getCached(key) == IF key \in DOMAIN entries THEN entries[key] ELSE null

\* lines 42-44 with the key of the caller's identity
setCached(url) ==
  LET key == cacheKeyFor(url) IN
  /\ cache' = cache \cup {key}
  /\ entries' = [k \in DOMAIN entries \cup {key} |->
                  IF k = key THEN authToken ELSE entries[k]]
  /\ UNCHANGED << online, queue, enq, pass, last, nextId, calls, schedVars,
                  histVars, authToken, sent, request, reordered >>

\* auth.ts setToken: login stores a credential, logout removes it
setToken(token) ==
  /\ authToken' = IF truthy(token) THEN token ELSE null
  /\ UNCHANGED << online, queue, cache, enq, pass, last, nextId, calls,
                  schedVars, histVars, entries, sent, request, reordered >>

\* sessions of several identities on one device, reading and filling the
\* read cache
NextCache ==
  \/ \E token \in Credentials : setToken(token)
  \/ \E url \in GetUrls : setCached(url)

\* ------------------------------------------------------ request headers
\* the header names queued requests use, as spelled by the caller
HeaderKeys ==
  {"X-Offline-Sync", "x-offline-sync", "Content-Type", "content-type",
   "Authorization"}

\* the values a caller gives them
HeaderValues == {"false", "text/plain"}

\* header names are matched byte-case-insensitively by Headers
byteLowercase ==
  [key \in HeaderKeys |->
     IF key \in {"X-Offline-Sync", "x-offline-sync"} THEN "x-offline-sync"
     ELSE IF key \in {"Content-Type", "content-type"} THEN "content-type"
     ELSE "authorization"]

\* objects are their own properties in insertion order
Objects ==
  {obj \in UNION {[1..n -> [key : HeaderKeys, value : HeaderValues]] :
                    n \in 0..MaxHeaders} :
     \A i, j \in DOMAIN obj : obj[i].key = obj[j].key => i = j}

\* obj[key] = value: a property that exists keeps its place
assign(obj, key, value) ==
  IF \E i \in DOMAIN obj : obj[i].key = key
  THEN [i \in DOMAIN obj |->
          IF obj[i].key = key THEN [key |-> key, value |-> value] ELSE obj[i]]
  ELSE Append(obj, [key |-> key, value |-> value])

RECURSIVE spread(_, _, _)
\* { ...obj, ...src }: the properties of src from position k on are assigned
spread(obj, src, k) ==
  IF k > Len(src) THEN obj
  ELSE spread(assign(obj, src[k].key, src[k].value), src, k + 1)

\* lines 106-110
headersOf(item) ==
  assign(spread(<< [key |-> "Content-Type", value |-> "application/json"] >>,
                item, 1),
         "X-Offline-Sync", "true")

\* Headers.get(name) on the Headers that fetch fills from init: the values
\* of the entries of that name, in order (they are sent joined by ", ")
get(init, name) ==
  LET named == [i \in DOMAIN init |-> byteLowercase[init[i].key] = name]
  IN [i \in DOMAIN Filter(init, named, 1) |-> Filter(init, named, 1)[i].value]

\* line 104: the request of a queued item with these headers is sent
Fetch(item) ==
  /\ request' = [item |-> item, headers |-> headersOf(item)]
  /\ UNCHANGED << online, queue, cache, enq, pass, last, nextId, calls,
                  schedVars, histVars, sent, reordered, authVars >>

NextHeaders == \E item \in Objects : Fetch(item)

SpecHeaders == Init /\ [][NextHeaders]_vars

\* The process restarts: the calls in progress and the module state are
\* gone, the durable store is as it was left.
Restart ==
  /\ enq' = {}
  /\ pass' = [p \in Passes |-> Idle]
  /\ last' = NoLast
  /\ started' = FALSE
  /\ cleanup' = 0
  /\ syncInProgress' = [c \in Closures |-> FALSE]
  /\ handlers' = {}
  /\ timers' = {}
  /\ immediate' = 0
  /\ starts' = 0
  /\ op' = "none"
  /\ UNCHANGED << online, queue, cache, nextId, authVars, calls, histVars,
                  sent, request, reordered >>

\* enqueue calls, which may overlap, and restarts; no pass runs
NextEnq ==
  \/ EnqueueCall(MaxIdEnq)
  \/ EnqueueLoaded
  \/ EnqueueSaved
  \/ EnqueueFault
  \/ Restart

SpecEnq == Init /\ [][NextEnq]_vars

SpecCache == Init /\ [][NextCache]_vars

\* enqueue calls one after the other, online and offline; no pass runs
NextAppend ==
  \/ enq = {} /\ EnqueueCall(MaxIdEnq)
  \/ EnqueueLoaded
  \/ EnqueueSaved
  \/ EnqueueFault
  \/ GoOffline
  \/ GoOnline

SpecAppend == Init /\ [][NextAppend]_vars

\* The scheduler online over a store that does not fault: enqueue calls,
\* and passes started by start, 'online' events and timer ticks when no
\* pass is running; every request is answered or throws.
NextLive ==
  \/ EnqueueCall(MaxId)
  \/ EnqueueLoaded
  \/ EnqueueSaved
  \/ NoOverlap /\ startOfflineSync
  \/ NoOverlap /\ OnlineEvent
  \/ NoOverlap /\ TimerTick
  \/ \E p \in Passes : Loaded(p)
  \/ \E p \in Passes : Saved(p)
  \/ \E p \in Passes : \E i \in DOMAIN pass[p].q : Waited(p, i)
  \/ \E p \in Passes : \E i \in DOMAIN pass[p].q : Responded(p, i)
  \/ \E p \in Passes : \E i \in DOMAIN pass[p].q : Threw(p, i)
  \/ \E p \in Passes : \E i \in DOMAIN pass[p].q : Listed(p, i)
  \/ \E p \in Passes : \E i \in DOMAIN pass[p].q : Removed(p, i)

SpecLive == Init /\ [][NextLive]_vars

\* ------------------------------------------------------------- claims
\* mutations a pass has given a terminal outcome
Resolved == okd \cup rejected \cup exhausted

\* this step is the return of the call in slot p after its saveQueue
Returns(p) ==
  /\ pass[p].pc = "save"
  /\ pass'[p].pc = "idle"
  /\ last'.how = "returned"

\* this step is the load of the queue by the call in slot p
Loads(p) ==
  /\ pass[p].pc = "load"
  /\ pass'[p].pc = "batch"

\* C1: a mutation whose enqueue call has returned is in the persisted
\* queue until a pass has given it a terminal outcome (2xx, 400..499, or a
\* transient failure that raised retryCount above 5), in every interleaving.
C1_NoSilentLoss ==
  \A id \in acked : id \notin Resolved => id \in Ids(queue)

\* C2: when passes do not overlap, a mutation answered 2xx is absent from
\* the queue its pass persists, and no later step sends a request for it.
C2_NoDoubleApplication ==
  [][/\ \A p \in Passes : Returns(p) => Ids(queue') \cap okd = {}
     /\ \A id \in okd : ~SendsRequest(id)]_vars

\* the loaded items whose attempt failed transiently and whose incremented
\* retryCount is at most 5, each with the incremented retryCount
Survivors(q, resp) ==
  Filter([i \in DOMAIN q |-> [q[i] EXCEPT !.retryCount = @ + 1]],
         [i \in DOMAIN q |->
            resp[i] = "transient" /\ q[i].retryCount + 1 <= MaxRetries], 1)

\* C3: a pass that loaded a non-empty queue and returns, nothing else being
\* interleaved, persists exactly the loaded items whose attempt failed
\* transiently with an incremented retryCount <= 5, each with that
\* retryCount, and returns the length of that queue as remaining.
C3_PersistedSurvivors ==
  [][\A p \in Passes :
       Returns(p) =>
         /\ queue' = Survivors(queue, pass[p].resp)
         /\ last'.res.remaining = Len(queue')]_vars

\* C4: a transient failure increments retryCount by one; the item is kept
\* while the new retryCount is 1..5 and is dropped, and counted once in
\* failed, by the attempt made at retryCount 5 (the sixth); once a pass has
\* dropped it so and returned, no later persisted queue holds it.
C4_RetryExhaustion ==
  [][/\ \A p \in Passes : \A i \in DOMAIN pass[p].q :
          (InFlight(p, i) /\ pass'[p].resp[i] = "transient") =>
            LET rc == pass[p].q[i].retryCount IN
              /\ pass'[p].q[i].retryCount = rc + 1
              /\ rc < MaxRetries =>
                   pass'[p].keep[i] /\ pass'[p].failed = pass[p].failed
              /\ rc >= MaxRetries =>
                   ~pass'[p].keep[i] /\ pass'[p].failed = pass[p].failed + 1
     /\ \A id \in exhausted \cap settled : id \notin Ids(queue')]_vars

\* C5: an item answered 400..499, at any retryCount, is dropped by that
\* pass, adds exactly one to failed, keeps its retryCount, and once the pass
\* has returned it is in no persisted queue and no later pass loads it.
C5_PermanentRejection ==
  [][/\ \A p \in Passes : \A i \in DOMAIN pass[p].q :
          (InFlight(p, i) /\ pass'[p].resp[i] = "client") =>
            /\ ~pass'[p].keep[i]
            /\ pass'[p].failed = pass[p].failed + 1
            /\ pass'[p].q[i].retryCount = pass[p].q[i].retryCount
     /\ \A p \in Passes : \A i \in DOMAIN pass[p].q :
          (Returns(p) /\ pass[p].resp[i] = "client") =>
            pass[p].q[i].id \notin Ids(queue')
     /\ \A id \in rejected \cap settled : id \notin Ids(queue')
     /\ \A p \in Passes :
          Loads(p) => Ids(pass'[p].q) \cap (rejected \cap settled) = {}]_vars

\* C6: a processQueue call made offline returns {0, 0, 0} and leaves the
\* persisted queue, the cache and every request as they were: no call made
\* offline ever runs as a pass.
C6_OfflineNoOp ==
  [][/\ \A p \in Passes : pass'[p].pc # "idle" => pass'[p].onl
     /\ (last' # last /\ ~last'.onl) =>
          /\ last'.how = "returned"
          /\ last'.res = NoOp
          /\ UNCHANGED << queue, cache, pass >>]_vars

\* an offline call has returned while mutations are queued and cached
\* entries exist
C6_Witness == ~last.onl /\ Len(queue) > 0 /\ cache # {}

\* C7: whatever the responses of its items (4xx, transient failure, thrown
\* error), a pass attempts every item of the loaded queue, batch after
\* batch, before it saves, and it fails only on a fault of loadQueue or
\* saveQueue.
C7_FailureIsolation ==
  /\ \A p \in Passes :
       pass[p].pc = "save" =>
         \A i \in DOMAIN pass[p].q :
           pass[p].st[i] = "done" /\ pass[p].resp[i] # "none"
  /\ \A p \in Passes :
       pass[p].pc = "batch" =>
         \A i \in DOMAIN pass[p].q :
           /\ i < pass[p].lo => pass[p].st[i] = "done"
           /\ (i >= pass[p].lo /\ i <= BatchEnd(pass[p])) => pass[p].st[i] # "new"
  /\ last.how = "threw" => last.cause \in {"load", "save"}

\* a pass over four items is about to save: the first item was answered
\* 4xx, the second failed transiently, the third threw at retryCount 5,
\* and the item of the second batch was attempted
C7_Witness ==
  \E p \in Passes :
    /\ pass[p].pc = "save"
    /\ Len(pass[p].q) > batchSize
    /\ pass[p].resp[1] = "client"
    /\ pass[p].resp[2] = "transient"
    /\ pass[p].resp[3] = "transient" /\ ~pass[p].keep[3]
    /\ pass[p].resp[batchSize + 1] = "ok"

\* C8: a store fault raised in a processQueue call makes the call fail: no
\* call goes on after a fault of the store was raised in it.
C8_StorageFaultsPropagate ==
  \A p \in Passes : Active(p) => ~pass[p].fault

\* C9: at most one pass started by the scheduler (the immediate pass of
\* start, an 'online' pass or a timer pass) is in progress.
C9_OneSchedulerPass ==
  Cardinality({p \in Passes : Active(p) /\ pass[p].kind \in {"start", "sync"}}) <= 1

\* C10: after any number of startOfflineSync calls with no stopOfflineSync
\* in between, exactly one 'online' handler and one timer are registered
\* and exactly one immediate pass was triggered; a call after the first
\* changes nothing.
C10_StartIdempotent ==
  /\ [](starts >= 1 =>
          /\ started
          /\ Cardinality(handlers) = 1
          /\ Cardinality(timers) = 1
          /\ handlers = timers
          /\ cleanup \in handlers
          /\ immediate = 1)
  /\ [][(starts >= 1 /\ starts' = starts + 1) =>
          UNCHANGED << online, queue, cache, enq, pass, last, nextId,
                       authVars, calls, started, cleanup, syncInProgress,
                       handlers, timers, immediate, histVars >>]_vars

\* startOfflineSync was called twice with no stopOfflineSync in between
C10_Witness == starts = 2 /\ started /\ Cardinality(handlers) = 1

\* the call in slot p starts with this step
Starts(p) == pass[p].pc = "idle" /\ pass'[p].pc # "idle"

\* C11: once stopOfflineSync has returned, no 'online' handler and no timer
\* is registered, started is false and no event or tick starts a pass until
\* startOfflineSync is called again, which registers one handler and one
\* timer; stopOfflineSync when not started changes nothing.
C11_StopReversesStart ==
  /\ [](~started => handlers = {} /\ timers = {} /\ cleanup = 0)
  /\ [](started => Cardinality(handlers) = 1 /\ Cardinality(timers) = 1)
  /\ [][/\ (op' = "stop" /\ started) =>
            ~started' /\ handlers' = {} /\ timers' = {}
        /\ (op # "stop" /\ op' = "stop" /\ ~started) =>
            UNCHANGED << online, queue, cache, enq, pass, last, nextId,
                         authVars, calls, started, cleanup, syncInProgress,
                         handlers, timers, immediate, starts, histVars >>
        /\ ~started =>
            \A p \in Passes : Starts(p) => pass'[p].kind \in {"direct", "start"}]_vars

\* stopOfflineSync has returned while the immediate pass of the start it
\* reverses is still running
C11_Witness ==
  /\ op = "stop"
  /\ ~started
  /\ \E p \in Passes : Active(p) /\ pass[p].kind = "start"

\* C12: whatever the interleaving of the enqueue calls and wherever the
\* process restarts, the queue loaded from the store holds every mutation
\* whose enqueue call returned and that no pass has resolved.
C12_EnqueueDurable ==
  \A id \in acked \ Resolved :
    \E i \in DOMAIN loadQueue : loadQueue[i].id = id

\* C13: with the client online, the store not faulting and passes not
\* overlapping, no mutation is loaded by more than six passes, and none is
\* still in the persisted queue once the sixth pass that loaded it has
\* ended.
C13_ResolvedBySixthPass ==
  \A id \in DOMAIN loads :
    /\ loads[id] <= MaxRetries + 1
    /\ ((\A p \in Passes : ~Active(p)) /\ id \in Ids(queue)) =>
         loads[id] <= MaxRetries

\* the waits of the first five retries, in ms
BackoffTable == << 1000, 2000, 4000, 8000, 16000 >>

\* C14: the wait before an attempt is 0 at retryCount 0 and
\* min(1000 * 2^(retryCount-1), 30000) ms otherwise: 1000, 2000, 4000, 8000,
\* 16000 for retryCount 1..5, never above 30000, non-decreasing; an item's
\* timer is set to that wait and its request is sent when the timer fired.
C14_Backoff ==
  /\ [](/\ backoffTime(0) = 0
        /\ \A rc \in 1..MaxRetries : backoffTime(rc) = BackoffTable[rc]
        /\ \A rc \in 1..MaxRetryCount :
             /\ backoffTime(rc) = Min(1000 * 2 ^ (rc - 1), 30000)
             /\ backoffTime(rc) <= 30000
             /\ backoffTime(rc - 1) <= backoffTime(rc))
  /\ [][\A p \in Passes : \A i \in DOMAIN pass'[p].q :
          /\ (pass'[p].pc = "batch" /\ pass'[p].st[i] = "wait") =>
               pass'[p].ms[i] = BackoffTable[pass'[p].q[i].retryCount]
          /\ (pass'[p].pc = "batch" /\ pass'[p].st[i] = "fetch" /\ ~InFlight(p, i)) =>
               IF pass'[p].q[i].retryCount = 0
               THEN pass'[p].ms[i] = 0
               ELSE /\ pass[p].pc = "batch"
                    /\ pass[p].st[i] = "wait"
                    /\ pass[p].ms[i] = BackoffTable[pass[p].q[i].retryCount]]_vars

\* the request of a mutation that failed once is in flight after its wait
\* of 1000 ms
C14_Witness ==
  \E p \in Passes : \E i \in DOMAIN pass[p].q :
    InFlight(p, i) /\ pass[p].q[i].retryCount = 1 /\ pass[p].ms[i] = 1000

RECURSIVE Concat(_, _)
\* the sequences of ss from position k on, one after the other
Concat(ss, k) == IF k > Len(ss) THEN << >> ELSE ss[k] \o Concat(ss, k + 1)

\* the partition of a queue q is as claimed
Partitioned(q) ==
  LET B == batches(q)
      n == Len(q)
  IN /\ Len(B) = (n + 2) \div 3
     /\ Concat(B, 1) = q
     /\ \A k \in 1..(Len(B) - 1) : Len(B[k]) = 3
     /\ Len(B[Len(B)]) \in 1..3

\* C15: a loaded queue of n >= 1 items is split into ceil(n/3) batches
\* that concatenate to the queue, all of 3 items but the last of 1..3 (7
\* items: 3, 3, 1); a pass works on these batches, and when every request
\* of a pass succeeded the pass returns processed = n and remaining = 0.
C15_BatchPartition ==
  /\ [](/\ \A n \in 1..MaxBatchLen : Partitioned([i \in 1..n |-> i])
        /\ LET B == batches([i \in 1..7 |-> i])
           IN << Len(B[1]), Len(B[2]), Len(B[3]) >> = << 3, 3, 1 >>
        /\ \A p \in Passes :
             pass[p].pc = "batch" =>
               /\ Partitioned(pass[p].q)
               /\ \E k \in DOMAIN batches(pass[p].q) :
                    /\ pass[p].lo = (k - 1) * 3 + 1
                    /\ SubSeq(pass[p].q, pass[p].lo, BatchEnd(pass[p])) =
                         batches(pass[p].q)[k])
  /\ [][\A p \in Passes :
          (Returns(p) /\ \A i \in DOMAIN pass[p].q : pass[p].resp[i] = "ok") =>
            /\ last'.res.processed = Len(pass[p].q)
            /\ last'.res.remaining = 0]_vars

\* the batch of the item at position i
BatchOf(i) == (i - 1) \div batchSize + 1

\* C16: in a pass, no wait or request of an item begins before every item
\* of the batches before its own has reached its outcome, so that a pass
\* has at most 3 requests in flight.
C16_BatchSequencing ==
  \A p \in Passes :
    Active(p) =>
      /\ \A i, j \in DOMAIN pass[p].q :
           (BatchOf(j) < BatchOf(i) /\ pass[p].st[i] # "new") =>
             pass[p].st[j] = "done"
      /\ Cardinality({i \in DOMAIN pass[p].q : pass[p].st[i] = "fetch"}) <= 3

\* the request of the item of the second batch is in flight after the
\* items of the first reached their outcomes: a success, a drop, a survivor
C16_Witness ==
  \E p \in Passes :
    /\ Len(pass[p].q) > batchSize
    /\ pass[p].st[batchSize + 1] = "fetch"
    /\ pass[p].resp[1] = "ok"
    /\ pass[p].resp[2] = "client"
    /\ pass[p].resp[3] = "transient" /\ pass[p].keep[3]

\* C17: when a pass returns, every item answered 2xx was counted once in
\* processed and is not persisted, and if its path has a second segment no
\* key with the read-cache prefix that contains the segment is left; a
\* cache entry is removed only for such an item and such a key.
C17_InvalidationOnSuccess ==
  [][/\ \A p \in Passes :
          Returns(p) =>
            /\ \A i \in DOMAIN pass[p].q :
                 pass[p].resp[i] = "ok" =>
                   /\ pass[p].q[i].id \notin Ids(queue')
                   /\ resourceType(pass[p].q[i].url) # undefined =>
                        \A key \in cache' :
                          ~(/\ startsWith(key, CACHE_PREFIX)
                            /\ includes(key, resourceType(pass[p].q[i].url)))
            /\ last'.res.processed =
                 Cardinality({i \in DOMAIN pass[p].q : pass[p].resp[i] = "ok"})
     /\ cache' # cache =>
          \E p \in Passes : \E i \in DOMAIN pass[p].q :
            /\ pass[p].resp[i] = "ok"
            /\ resourceType(pass[p].q[i].url) # undefined
            /\ \A key \in cache \ cache' :
                 /\ startsWith(key, CACHE_PREFIX)
                 /\ includes(key, resourceType(pass[p].q[i].url))
            /\ cache' \subseteq cache]_vars

\* C18: for every URL, the key of the current identity differs from the key
\* of every other credential (or of no credential) that stored an entry,
\* and getCached with the key of the current identity never returns what
\* another identity stored.
C18_CacheIdentityScoping ==
  \A url \in GetUrls :
    /\ \A key \in DOMAIN entries :
         entries[key] # authToken =>
           cacheKeyWith(url, entries[key]) # cacheKeyFor(url)
    /\ cacheKeyFor(url) \in DOMAIN entries =>
         getCached(cacheKeyFor(url)) = authToken

\* this step is an 'online' event or a timer tick
Trigger ==
  /\ op' \in {"online", "tick"}
  /\ op' # op \/ \E p \in Passes : Starts(p) /\ pass'[p].kind = "sync"

\* a pass started by the scheduler is in progress
SchedulerPass ==
  \E p \in Passes : Active(p) /\ pass[p].kind \in {"start", "sync"}

\* C19: an 'online' event or timer tick that fires offline starts no pass,
\* sends no request and leaves the persisted queue as it is; one that
\* fires online while no scheduler pass is running starts exactly one pass.
C19_TriggersRespectConnectivity ==
  [][Trigger =>
       /\ ~isOnline =>
            UNCHANGED << online, queue, cache, enq, pass, last, nextId, calls,
                         started, cleanup, syncInProgress, handlers, timers,
                         immediate, starts, histVars, authVars >>
       /\ (isOnline /\ ~SchedulerPass) =>
            /\ Cardinality({p \in Passes : Starts(p)}) = 1
            /\ \A p \in Passes : Starts(p) => pass'[p].kind = "sync"
            /\ calls' = calls + 1
            /\ queue' = queue]_vars

\* the only pass in progress was started by a trigger and awaits loadQueue,
\* the last trigger being a timer tick
C19_Witness ==
  /\ op = "tick"
  /\ \E p \in Passes :
       /\ pass[p].pc = "load" /\ pass[p].kind = "sync"
       /\ \A r \in Passes \ {p} : ~Active(r)

\* this step is the return of the enqueue call e
EnqueueReturns(e) == e \in enq /\ e \notin enq' /\ e.id \in acked' \ acked

\* C20: when enqueue returns, the persisted queue is the queue it was
\* called on followed by one new item with the operation's url and
\* retryCount 0; no request is sent and no cache entry changes, online or
\* offline, and no other step of enqueue changes the queue.
C20_EnqueueAppends ==
  [][/\ \A e \in enq :
          EnqueueReturns(e) =>
            /\ queue' = queue \o << [id |-> e.id, url |-> e.url, retryCount |-> 0] >>
            /\ \A i \in DOMAIN queue : queue'[i] = queue[i]
            /\ UNCHANGED << online, cache, entries, pass, last, calls >>
     /\ (enq' # enq /\ \A e \in enq : ~EnqueueReturns(e)) =>
          UNCHANGED << online, queue, cache, entries, pass, last, calls >>]_vars

\* offline, enqueue has returned on a queue that held a mutation with
\* retryCount 5
C20_Witness ==
  /\ ~online
  /\ Len(queue) = 2
  /\ queue[1].retryCount = MaxRetries
  /\ queue[2].id \in acked /\ queue[2].id > MaxInit

\* the persisted retryCount of mutation id after this step, given the one
\* before it: one more when a pass that attempted it and saw it fail
\* transiently returns, the same otherwise
Accounted(id, rc) ==
  IF \E p \in Passes : \E k \in DOMAIN pass[p].q :
       Returns(p) /\ pass[p].q[k].id = id /\ pass[p].resp[k] = "transient"
  THEN rc + 1
  ELSE rc

\* C21: the retryCount of an item goes up by exactly one with each attempt
\* that ends in a response that is neither 2xx nor 400..499 or in a thrown
\* error, in the pass and in the persisted queue; no other step (an enqueue,
\* a success, a 4xx, an offline call) lowers or changes it.
C21_RetryCountAccounting ==
  [][/\ \A p \in Passes : \A i \in DOMAIN pass[p].q :
          (pass[p].pc = "batch" /\ pass'[p].pc # "idle") =>
            pass'[p].q[i].retryCount =
              pass[p].q[i].retryCount +
                (IF InFlight(p, i) /\ pass'[p].resp[i] = "transient" THEN 1 ELSE 0)
     /\ \A i \in DOMAIN queue : \A j \in DOMAIN queue' :
          queue[i].id = queue'[j].id =>
            queue'[j].retryCount = Accounted(queue[i].id, queue[i].retryCount)]_vars

\* the kinds of the passes the scheduler starts
SchedulerKinds == {"start", "sync"}

\* C22: nothing keeps a direct processQueue call and a pass of the
\* scheduler apart: each takes the persisted queue as its snapshot when it
\* loads and persists its own survivors when it returns, whatever the other
\* has persisted since; so the later save can write back a mutation the
\* other pass resolved with 2xx, after both sent it.
C22_LostUpdateRace ==
  [][\A p \in Passes :
       /\ Loads(p) => pass'[p].q = queue
       /\ Returns(p) => queue' = Filter(pass[p].q, pass[p].keep, 1)]_vars

\* a direct call and a pass of the scheduler both sent a mutation; one got
\* 2xx and persisted a queue without it, the other has written it back
C22_Witness ==
  \E id \in Ids(queue) :
    /\ id \in (okd \cap settled) \ (rejected \cup exhausted)
    /\ << id, "direct" >> \in sent
    /\ \E kind \in SchedulerKinds : << id, kind >> \in sent
    /\ \A p \in Passes : ~Active(p)
    /\ last.how = "returned"

\* C23: a pass writes the persisted queue only with the saveQueue it ends
\* with, once every item of every batch has returned; no step between its
\* loadQueue and that saveQueue changes the persisted queue, whatever the
\* outcomes of the items.
C23_WriteOnce ==
  [][/\ queue' # queue => \E p \in Passes : Returns(p)
     /\ \A p \in Passes :
          Returns(p) =>
            /\ ~Active(p)'
            /\ \A i \in DOMAIN pass[p].q : pass[p].st[i] = "done"]_vars

\* a pass over two batches has returned and its only write left one
\* survivor, after a success with invalidation and a drop
C23_Witness ==
  /\ last.how = "returned"
  /\ last.res.processed >= 1
  /\ last.res.failed >= 1
  /\ last.res.processed + last.res.failed + last.res.remaining > batchSize
  /\ Len(queue) = 1
  /\ cache # KeySet

\* C24: the request of an item carries X-Offline-Sync with the value
\* "true" whatever the item's headers define for that header; the item's
\* Content-Type, if it has one, replaces application/json; every other
\* header of the item is sent as the item has it.
C24_SyncMarker ==
  request # NoRequest =>
    /\ get(request.headers, "x-offline-sync") = << "true" >>
    /\ get(request.headers, "content-type") =
         (IF get(request.item, "content-type") # << >>
          THEN get(request.item, "content-type")
          ELSE << "application/json" >>)
    /\ get(request.headers, "authorization") = get(request.item, "authorization")

\* C25: a pass that loaded n items and returns reports
\* processed + failed + remaining = n, also when a cache-store operation
\* failed during the invalidation that follows a 2xx response.
C25_CounterConservation ==
  [][\A p \in Passes :
       Returns(p) =>
         last'.res.processed + last'.res.failed + last'.res.remaining =
           Len(pass[p].q)]_vars

\* C26: in every reachable state, whatever enqueues and passes ran and
\* overlapped, every item of the persisted queue has a retryCount in 0..5,
\* so that the backoff waited for it is at most 16000 ms, below the cap of
\* 30000 ms.
C26_BoundedRetryCount ==
  /\ \A i \in DOMAIN queue :
       /\ queue[i].retryCount \in 0..MaxRetries
       /\ backoffTime(queue[i].retryCount) <= 16000
  /\ \A p \in Passes : \A i \in DOMAIN pass[p].ms :
       pass[p].ms[i] <= 16000 /\ pass[p].ms[i] < 30000

\* a pass dropped a mutation that failed at retryCount 5, and a later pass
\* has persisted another mutation with retryCount 1
C26_Witness ==
  /\ exhausted # {}
  /\ \E i \in DOMAIN queue : queue[i].retryCount = 1
  /\ \A p \in Passes : ~Active(p)

\* the attempt of item i ended in the catch block or in the retryable branch
Retried(resp, flt, i) == resp[i] = "transient" \/ flt[i]

\* the survivors of a loaded queue q given the outcome of each item
Kept(q, resp, flt) ==
  Filter([i \in DOMAIN q |-> [q[i] EXCEPT !.retryCount = @ + 1]],
         [i \in DOMAIN q |->
            Retried(resp, flt, i) /\ q[i].retryCount + 1 <= MaxRetries], 1)

\* the counts of a pass over q given the outcome of each item
Counts(q, resp, flt) ==
  [processed |-> Cardinality({i \in DOMAIN q : resp[i] = "ok"}),
   failed |->
     Cardinality({i \in DOMAIN q :
                    \/ resp[i] = "client"
                    \/ Retried(resp, flt, i) /\ q[i].retryCount + 1 > MaxRetries}),
   remaining |-> Len(Kept(q, resp, flt))]

\* the position of mutation id in q
Position(q, id) == CHOOSE i \in DOMAIN q : q[i].id = id

\* C27: the queue a pass persists and the counts it returns are determined
\* by the loaded queue and the outcome of each item, in whatever order the
\* requests of a batch complete, and the survivors are persisted in the
\* order they had in the loaded queue.
C27_InterleavingIndependence ==
  [][\A p \in Passes :
       Returns(p) =>
         /\ queue' = Kept(queue, pass[p].resp, pass[p].flt)
         /\ last'.res = Counts(queue, pass[p].resp, pass[p].flt)
         /\ \A a, b \in DOMAIN queue' :
              a < b => Position(queue, queue'[a].id) < Position(queue, queue'[b].id)]_vars

\* a pass over one batch of three items has returned; the three failed
\* transiently and are persisted in loaded order, though one of them
\* returned before an earlier one
C27_Witness ==
  /\ reordered
  /\ last.how = "returned"
  /\ last.res.remaining = batchSize
  /\ Cardinality(DOMAIN loads) = batchSize
  /\ \A i \in DOMAIN queue : queue[i].id = i /\ queue[i].retryCount = 1

\* the call in slot p is removing the cache keys of item i, answered 2xx
Invalidating(p, i) ==
  /\ pass[p].pc = "batch"
  /\ i \in DOMAIN pass[p].q
  /\ pass[p].st[i] = "remove"
  /\ pass[p].resp[i] = "ok"

\* C28: a key that leaves the store during a pass starts with the prefix of
\* the read cache and contains the resource type of an item answered 2xx
\* whose invalidation is running; the persisted queue is never removed or
\* changed by the invalidation.
C28_InvalidationFrame ==
  [][/\ \A key \in cache \ cache' :
          /\ startsWith(key, CACHE_PREFIX)
          /\ key # QUEUE_KEY
          /\ \E p \in Passes : \E i \in DOMAIN pass[p].q :
               /\ Invalidating(p, i)
               /\ includes(key, resourceType(pass[p].q[i].url))
     /\ cache' # cache => queue' = queue]_vars

\* the invalidation of a success on /api/transactions removed the cached
\* transactions and left the cached accounts, the draft key and the
\* pending mutations in the store
C28_Witness ==
  /\ cache = KeySet \ {AllKeys[1]}
  /\ Len(queue) >= 2
  /\ \E p \in Passes : \E i \in DOMAIN pass[p].q :
       pass[p].resp[i] = "ok" /\ pass[p].st[i] = "done"

\* the pass of attemptSync of closure c is in progress
Syncing(c) ==
  \E p \in Passes : Active(p) /\ pass[p].kind = "sync" /\ pass[p].owner = c

\* C29: the flag of a closure is set only while its pass is in progress:
\* when the pass ends, by returning or by throwing, the flag is cleared,
\* and an 'online' event or timer tick that then fires online starts a new
\* pass.
C29_GuardRelease ==
  /\ [](\A c \in Closures : syncInProgress[c] => Syncing(c))
  /\ [][/\ \A p \in Passes :
            (Active(p) /\ pass[p].kind = "sync" /\ pass'[p].pc = "idle") =>
              /\ last'.how \in {"returned", "threw"}
              /\ ~syncInProgress'[pass[p].owner]
        /\ (Trigger /\ isOnline /\ \A c \in handlers \cup timers : ~Syncing(c)) =>
              \E p \in Passes : Starts(p) /\ pass'[p].kind = "sync"]_vars

\* after a pass of attemptSync threw on a store fault, a trigger has
\* started a new pass
C29_Witness ==
  \E p \in Passes :
    /\ pass[p].kind = "sync"
    /\ pass[p].retry
    /\ pass[p].pc = "load"
    /\ syncInProgress[pass[p].owner]
    /\ op \in {"online", "tick"}

\* C30: a pass that loaded a non-empty queue sends one request for each
\* item of its snapshot, never a second one, has sent them all when it
\* saves, and sends none for a mutation that is not in its snapshot.
C30_OneAttemptPerItem ==
  /\ [](\A p \in Passes : \A i \in DOMAIN pass[p].q :
          /\ pass[p].reqs[i] <= 1
          /\ pass[p].pc = "batch" =>
               (pass[p].reqs[i] = 1 <=> pass[p].st[i] \notin {"new", "wait"})
          /\ pass[p].pc = "save" => pass[p].reqs[i] = 1)
  /\ [][/\ \A p \in Passes :
            /\ Loads(p) => pass'[p].q = queue
            /\ (pass[p].pc = "batch" /\ pass'[p].pc # "idle") =>
                 [i \in DOMAIN pass'[p].q |-> pass'[p].q[i].id] =
                   [i \in DOMAIN pass[p].q |-> pass[p].q[i].id]
        /\ \A r \in sent' \ sent :
            \E p \in Passes : \E i \in DOMAIN pass'[p].q :
              /\ pass'[p].q[i].id = r[1]
              /\ pass'[p].kind = r[2]
              /\ pass'[p].reqs[i] = 1
              /\ pass[p].pc = "batch" => pass[p].reqs[i] = 0]_vars

\* a pass that loaded one mutation with retryCount 5 has waited, sent its
\* request once and is about to save; a mutation enqueued since is in the
\* persisted queue and no request was sent for it
C30_Witness ==
  \E p \in Passes :
    /\ pass[p].pc = "save"
    /\ Len(pass[p].q) = 1
    /\ pass[p].ms[1] = 16000
    /\ pass[p].reqs[1] = 1
    /\ \E i \in DOMAIN queue : queue[i].id \notin Ids(pass[p].q)
    /\ sent = {<< pass[p].q[1].id, "direct" >>}

====
